---- MODULE Spec2Model ----
(***************************************************************************)
(* Model of src/ResturantMenuProject/menu.js (class RestaurantMenuManager):*)
(* the password-strength scorer, its debounced display and the login form. *)
(*                                                                         *)
(* Strings are sequences of one-character strings.  Scores are fixed-point *)
(* numbers: one point is Scale units, the complexity sub-score is kept in  *)
(* tenths.  The source computes in IEEE doubles; every quantity it adds is *)
(* a multiple of 1/12 * weight or of 0.1, and the rounding error of the    *)
(* doubles (below 2e-14) changes no comparison the code makes (> 0.7,      *)
(* < 30, < 50, < 60, < 70, < 85, Math.round), so the exact values are used.*)
(***************************************************************************)
EXTENDS Integers, Sequences, FiniteSets, TLC

VARIABLES passwordStrengthConfig, pwdValue, inputEvents, validationTimeout,
          display, alert, redirectTimers,
          timers, timeoutHandle, sinceInput,
          notifications, subtleElements, subtleCalls, subtleMessage,
          menuClasses, menuBtnText, ariaLabel, ariaExpanded, bodyOverflow,
          menuEvent,
          storedTheme, bodyDarkMode, toggleChecked, systemDark, themeEvent

\* the timer table of the window, the timer id the input listener keeps in
\* its variable validationTimeout, and the time since the last input event:
\* they are followed by SpecDebounce only; the other specifications keep
\* the flag validationTimeout (a validation timer is pending) in their place
timerVars == <<timers, timeoutHandle, sinceInput>>

\* this.notifications, the subtle notifications on screen, and the number
\* and last message of the calls of showSubtleNotification
notificationVars ==
  <<notifications, subtleElements, subtleCalls, subtleMessage>>

\* the class list of #mobileMenu, text and aria attributes of #mobileMenuBtn,
\* document.body.style.overflow, and the last click or key event handled
menuVars ==
  <<menuClasses, menuBtnText, ariaLabel, ariaExpanded, bodyOverflow,
    menuEvent>>

\* localStorage "theme", the dark-mode class of the body, the checkbox
\* #darkModeToggle, the (prefers-color-scheme: dark) media query, and the
\* last theme event handled
themeVars ==
  <<storedTheme, bodyDarkMode, toggleChecked, systemDark, themeEvent>>

\* the variables SpecChrome follows; the other specifications leave them as
\* the page set them up
chromeVars == <<notificationVars, menuVars, themeVars>>

vars == <<passwordStrengthConfig, pwdValue, inputEvents, validationTimeout,
          display, alert, redirectTimers, timerVars, chromeVars>>

(* ----------------------------- bounds ---------------------------------- *)
\* input events on the password field in a behaviour of SpecScorer
MaxInputs == 3
\* input events on the password field in a behaviour of Spec
MaxFormInputs == 2
\* input events on the password field in a behaviour of SpecPaste
MaxPastes == 3
\* input events on the password field in a behaviour of SpecDebounce
MaxBurst == 3
\* calls of showSubtleNotification in a behaviour of SpecChrome
MaxSubtleCalls == 3
\* "Redirecting" timers pending at the same time
MaxRedirects == 1

(* --------------------------- characters -------------------------------- *)
LowerSeq == <<"a","b","c","d","e","f","g","h","i","j","k","l","m",
              "n","o","p","q","r","s","t","u","v","w","x","y","z">>
UpperSeq == <<"A","B","C","D","E","F","G","H","I","J","K","L","M",
              "N","O","P","Q","R","S","T","U","V","W","X","Y","Z">>
DigitSeq == <<"0","1","2","3","4","5","6","7","8","9">>

Range(s) == {s[i] : i \in 1..Len(s)}

\* /[a-z]/, /[A-Z]/, /[0-9]/ and the special-character class of the source
LowerChars == Range(LowerSeq)
UpperChars == Range(UpperSeq)
DigitChars == Range(DigitSeq)
SpecialChars == {"!","@","#","$","%","^","&","*","(",")","_","+","-","=",
                 "[","]","{","}",";","'",":","\"","\\","|",",",".","<",">",
                 "/","?"}
Whitespace == {" "}

Min(a, b) == IF a < b THEN a ELSE b
Max(a, b) == IF a > b THEN a ELSE b

\* String.prototype.toLowerCase, character by character
toLowerTable ==
  [c \in UpperChars |-> LowerSeq[CHOOSE i \in 1..Len(UpperSeq) : UpperSeq[i] = c]]
toLowerChar(c) == IF c \in UpperChars THEN toLowerTable[c] ELSE c
toLowerCase(s) == [i \in 1..Len(s) |-> toLowerChar(s[i])]

\* String.prototype.trim: drop the white space at both ends
RECURSIVE trimStart(_)
trimStart(s) ==
  IF s # <<>> /\ Head(s) \in Whitespace THEN trimStart(Tail(s)) ELSE s
RECURSIVE trimEnd(_)
trimEnd(s) ==
  IF s # <<>> /\ s[Len(s)] \in Whitespace
    THEN trimEnd(SubSeq(s, 1, Len(s) - 1)) ELSE s
trim(s) == trimEnd(trimStart(s))

\* RegExp.prototype.test for a character class: some character is in it
testClass(class, s) == \E i \in 1..Len(s) : s[i] \in class
\* RegExp.prototype.test for a literal pattern: contiguous substring
testLiteral(pat, s) ==
  \E i \in 0..(Len(s) - Len(pat)) : SubSeq(s, i + 1, i + Len(pat)) = pat

(* ---------------------------- constructor ------------------------------ *)
\* this.passwordStrengthConfig as the constructor builds it (weights only;
\* the messages are presentation text)
DefaultConfig ==
  [minLength |-> 8,
   maxLength |-> 128,
   requirements |-> [length     |-> [weight |-> 20],
                     lowercase  |-> [weight |-> 15],
                     uppercase  |-> [weight |-> 15],
                     number     |-> [weight |-> 15],
                     special    |-> [weight |-> 15],
                     complexity |-> [weight |-> 20]]]

RuleNames == {"length", "lowercase", "uppercase", "number", "special",
              "complexity"}

\* the complexity sub-score is kept in tenths: the clamp bound 1 is Tenths
Tenths == 10
\* units per point: the length ramp divides by 12, the complexity by Tenths
Scale == 12 * Tenths

(* ------------------------- calculateComplexity ------------------------- *)
\* commonPatterns with the stem /pass/ listed in place of /password/
commonPatternsStems ==
  { <<"1","2","3">>, <<"a","b","c">>, <<"q","w","e","r","t","y">>,
    <<"p","a","s","s">>, <<"a","d","m","i","n">>, <<"u","s","e","r">> }

\* const commonPatterns = [/123/, /abc/, /qwerty/, /password/, /admin/, /user/]
commonPatterns ==
  { <<"1","2","3">>, <<"a","b","c">>, <<"q","w","e","r","t","y">>,
    <<"p","a","s","s","w","o","r","d">>, <<"a","d","m","i","n">>,
    <<"u","s","e","r">> }

\* commonPatternHit with the patterns tested on the password as typed
commonPatternHitAsTyped(password) ==
  \E pattern \in commonPatterns : testLiteral(pattern, password)

\* commonPatterns.some((pattern) => pattern.test(password.toLowerCase()))
commonPatternHit(password) ==
  LET lowered == toLowerCase(password)
  IN  \E pattern \in commonPatterns : testLiteral(pattern, lowered)

\* const hasRepeats = /(.)\1{2,}/.test(password)
hasRepeats(password) ==
  \E i \in 1..(Len(password) - 2) :
     /\ password[i + 1] = password[i]
     /\ password[i + 2] = password[i]

\* the alternatives of the hasSequential regular expression
sequentialTable ==
  { <<"a","b","c">>, <<"b","c","d">>, <<"c","d","e">>, <<"d","e","f">>,
    <<"e","f","g">>, <<"f","g","h">>, <<"g","h","i">>, <<"h","i","j">>,
    <<"i","j","k">>, <<"j","k","l">>, <<"k","l","m">>, <<"l","m","n">>,
    <<"m","n","o">>, <<"n","o","p">>, <<"o","p","q">>, <<"p","q","r">>,
    <<"q","r","s">>, <<"r","s","t">>, <<"s","t","u">>, <<"t","u","v">>,
    <<"u","v","w">>, <<"v","w","x">>, <<"w","x","y">>, <<"x","y","z">>,
    <<"0","1","2">>, <<"1","2","3">>, <<"2","3","4">>, <<"3","4","5">>,
    <<"4","5","6">>, <<"5","6","7">>, <<"6","7","8">>, <<"7","8","9">> }

\* hasSequential without the i flag
hasSequentialCaseSensitive(password) ==
  \E t \in sequentialTable : testLiteral(t, password)

\* hasSequential with the expression anchored at the start of the password
hasSequentialAnchored(password) ==
  LET folded == toLowerCase(password)
  IN  /\ Len(folded) >= 3
      /\ SubSeq(folded, 1, 3) \in sequentialTable

\* /(?:abc|bcd|...|789)/i.test(password): the i flag folds the letter case
hasSequential(password) ==
  LET folded == toLowerCase(password)
  IN  \E t \in sequentialTable : testLiteral(t, folded)

\* "if (commonPatterns.some(...)) complexity -= 0.3", in tenths
commonPenalty(password) == IF commonPatternHit(password) THEN -3 ELSE 0

\* "if (hasRepeats) complexity -= 0.2", in tenths
repeatPenalty(password) == IF hasRepeats(password) THEN -2 ELSE 0

\* "if (hasSequential) complexity -= 0.2", in tenths
sequentialPenalty(password) == IF hasSequential(password) THEN -2 ELSE 0

\* "if (/[a-z]/.test(password) && /[A-Z]/.test(password)) complexity += 0.2"
caseBonus(password) ==
  IF testClass(LowerChars, password) /\ testClass(UpperChars, password)
    THEN 2 ELSE 0

\* "if (/[0-9]/.test(password) && /[a-zA-Z]/.test(password)) complexity += 0.2"
digitBonus(password) ==
  IF testClass(DigitChars, password)
     /\ testClass(LowerChars \cup UpperChars, password)
    THEN 2 ELSE 0

\* lengthBonus with the second test written as an alternative of the first
lengthBonusExclusive(password) ==
  IF Len(password) >= 16 THEN 2 ELSE IF Len(password) >= 12 THEN 3 ELSE 0

\* lengthBonus with the thresholds tested by > instead of >=
lengthBonusAbove(password) ==
  (IF Len(password) > 12 THEN 3 ELSE 0)
  + (IF Len(password) > 16 THEN 2 ELSE 0)

\* "if (password.length >= 12) complexity += 0.3;
\*  if (password.length >= 16) complexity += 0.2"
lengthBonus(password) ==
  (IF Len(password) >= 12 THEN 3 ELSE 0)
  + (IF Len(password) >= 16 THEN 2 ELSE 0)

\* the value of `complexity` before "+ 0.7" and the clamp, in tenths: the
\* statements run one after the other on a variable that starts at 0
complexityAdjustments(password) ==
  0 + commonPenalty(password) + repeatPenalty(password)
    + sequentialPenalty(password) + caseBonus(password)
    + digitBonus(password) + lengthBonus(password)

\* calculateComplexity with the upper clamp forgotten
calculateComplexityUnclamped(password) ==
  Max(0, complexityAdjustments(password) + 7)

\* return Math.max(0, Math.min(1, complexity + 0.7)), in tenths
calculateComplexity(password) ==
  Max(0, Min(Tenths, complexityAdjustments(password) + 7))

(* ----------------------- validatePasswordStrength ---------------------- *)
\* lengthScore as a step at minLength, the way calculatePasswordStrength does
lengthScoreStep(config, password) ==
  IF Len(password) >= 8 THEN config.requirements.length.weight * Scale ELSE 0

\* Math.min((password.length / 12) * weight, weight), in units
lengthScore(config, password) ==
  Min((Len(password) * config.requirements.length.weight * Scale) \div 12,
      config.requirements.length.weight * Scale)

\* passwordResults with the complexity flag set from 0.7 on
passwordResultsAtLeast(password) ==
  [length     |-> Len(password) >= 8,
   lowercase  |-> testClass(LowerChars, password),
   uppercase  |-> testClass(UpperChars, password),
   number     |-> testClass(DigitChars, password),
   special    |-> testClass(SpecialChars, password),
   complexity |-> calculateComplexity(password) >= 7]

\* the `results` object
passwordResults(password) ==
  [length     |-> Len(password) >= 8,
   lowercase  |-> testClass(LowerChars, password),
   uppercase  |-> testClass(UpperChars, password),
   number     |-> testClass(DigitChars, password),
   special    |-> testClass(SpecialChars, password),
   complexity |-> calculateComplexity(password) > 7]

\* classScore awarding the weight once per matching character
classScoreCounted(config, rule, class, password) ==
  config.requirements[rule].weight * Scale
    * Cardinality({i \in 1..Len(password) : password[i] \in class})

\* "if (results.X) totalScore += requirements.X.weight", in units
classScore(config, rule, class, password) ==
  IF testClass(class, password)
    THEN config.requirements[rule].weight * Scale ELSE 0

\* complexityTerm with the sub-score taken as a percentage of 100 points
complexityTermPercent(config, password) ==
  (calculateComplexity(password) * 100 * Scale) \div Tenths

\* "totalScore += complexityScore * requirements.complexity.weight", in units
complexityTerm(config, password) ==
  (calculateComplexity(password) * config.requirements.complexity.weight
     * Scale) \div Tenths

\* the value of totalScore handed to updatePasswordDisplay, in units
totalScore(config, password) ==
  lengthScore(config, password)
  + classScore(config, "lowercase", LowerChars, password)
  + classScore(config, "uppercase", UpperChars, password)
  + classScore(config, "number", DigitChars, password)
  + classScore(config, "special", SpecialChars, password)
  + complexityTerm(config, password)

(* ------------------------ updatePasswordDisplay ------------------------ *)
\* the suggestion lines, in the order the code pushes them
getPasswordSuggestions(password, results) ==
  LET s1 == IF Len(password) < 8 THEN <<"longer">> ELSE <<>>
      s2 == IF ~results.uppercase THEN <<"uppercase">> ELSE <<>>
      s3 == IF ~results.lowercase THEN <<"lowercase">> ELSE <<>>
      s4 == IF ~results.number THEN <<"numbers">> ELSE <<>>
      s5 == IF ~results.special THEN <<"special">> ELSE <<>>
      s6 == IF ~results.complexity THEN <<"patterns">> ELSE <<>>
      suggestions == s1 \o s2 \o s3 \o s4 \o s5 \o s6
  IN  IF Len(suggestions) > 0 THEN suggestions ELSE <<"Great password!">>

\* the strength label chosen by the if/else chain on score
strengthLabel(score) ==
  IF score < 30 * Scale THEN "Very Weak"
  ELSE IF score < 50 * Scale THEN "Weak"
  ELSE IF score < 70 * Scale THEN "Fair"
  ELSE IF score < 85 * Scale THEN "Good"
  ELSE "Excellent"

\* Math.round of a non-negative number of units, in points
round(units) == (2 * units + Scale) \div (2 * Scale)

\* updatePasswordDisplay showing the suggestions below the maximum score
\* (maxScore = 100) instead of below 70
updatePasswordDisplayBelowMax(prev, results, score, password) ==
  LET percentage == Min(score, 100 * Scale)
  IN  [width       |-> percentage,
       strength    |-> strengthLabel(score),
       percent     |-> round(percentage),
       rules       |-> results,
       suggestionsDisplay |-> IF score < 100 * Scale THEN "block" ELSE "none",
       suggestions |-> IF score < 100 * Scale
                         THEN getPasswordSuggestions(password, results)
                         ELSE prev.suggestions]

\* the strength container after updatePasswordDisplay; prev is the container
\* before the call (the suggestions text is kept when the panel is hidden)
updatePasswordDisplay(prev, results, score, password) ==
  LET percentage == Min(score, 100 * Scale)
  IN  [width       |-> percentage,
       strength    |-> strengthLabel(score),
       percent     |-> round(percentage),
       rules       |-> results,
       suggestionsDisplay |-> IF score < 70 * Scale THEN "block" ELSE "none",
       suggestions |-> IF score < 70 * Scale
                         THEN getPasswordSuggestions(password, results)
                         ELSE prev.suggestions]

\* validatePasswordStrength turning away, before scoring, a password outside
\* the configured minLength..maxLength (the container stays as it was)
validatePasswordStrengthBounded(config, prev, password) ==
  IF Len(password) < config.minLength \/ Len(password) > config.maxLength
    THEN prev
    ELSE updatePasswordDisplay(prev, passwordResults(password),
                               totalScore(config, password), password)

\* the strength container validatePasswordStrength leaves behind
validatePasswordStrength(config, prev, password) ==
  updatePasswordDisplay(prev, passwordResults(password),
                        totalScore(config, password), password)

\* the container createPasswordStrengthChecker builds
createPasswordStrengthChecker ==
  [width       |-> 0,
   strength    |-> "",
   percent     |-> 0,
   rules       |-> [r \in RuleNames |-> FALSE],
   suggestionsDisplay |-> "none",
   suggestions |-> <<>>]

(* ------------------------------ login form ----------------------------- *)
\* the score validateLoginForm compares with 60, in units
calculatePasswordStrength(config, password) ==
  (IF Len(password) >= 8
     THEN config.requirements.length.weight * Scale ELSE 0)
  + classScore(config, "lowercase", LowerChars, password)
  + classScore(config, "uppercase", UpperChars, password)
  + classScore(config, "number", DigitChars, password)
  + classScore(config, "special", SpecialChars, password)
  + complexityTerm(config, password)

\* validateLoginForm with the username length tested before the empty fields
validateLoginFormLengthFirst(config, username, password, dob) ==
  IF Len(username) < 3
    THEN [isValid |-> FALSE, message |-> "username too short"]
  ELSE IF username = <<>> \/ password = <<>> \/ dob = <<>>
    THEN [isValid |-> FALSE, message |-> "fill in all fields"]
  ELSE IF calculatePasswordStrength(config, password) < 60 * Scale
    THEN [isValid |-> FALSE, message |-> "password too weak"]
  ELSE [isValid |-> TRUE, message |-> ""]

validateLoginForm(config, username, password, dob) ==
  IF username = <<>> \/ password = <<>> \/ dob = <<>>
    THEN [isValid |-> FALSE, message |-> "fill in all fields"]
  ELSE IF Len(username) < 3
    THEN [isValid |-> FALSE, message |-> "username too short"]
  ELSE IF calculatePasswordStrength(config, password) < 60 * Scale
    THEN [isValid |-> FALSE, message |-> "password too weak"]
  ELSE [isValid |-> TRUE, message |-> ""]

(* ------------------------------- inputs -------------------------------- *)
\* what one input event appends to the password field (typed or pasted)
Chunks ==
  { <<"a">>, <<"a","b">>, <<"C">>, <<"1","2","3">>, <<"!">>, <<" ">>,
    <<"x","y","z">>, <<"c","b","a","8","9","0">>,
    <<"a","a","a","a","a","a">>,
    <<"P","A","S","S","W","O","R","D">>,
    <<"P","a","s","s","w","0","r","d">>,
    <<"A","d","m","i","n","1">>,
    <<"T","r","0","u","b","4","d","o","u","r","&","3">> }

\* a pasted text one character longer than the configured maxLength
Overlong == [i \in 1..(DefaultConfig.maxLength + 1) |-> "Z"]

\* what one input event of SpecPaste appends: the overlong text, a text with
\* no character of any tested class, and two short ones
PasteChunks == { Overlong, <<"~"," ">>, <<"7","!">>, <<"q">> }

\* the username and date-of-birth fields at the time of a submit
LoginFields ==
  { [username |-> <<" ">>, dob |-> <<"2","0","0","1">>],
    [username |-> <<"a","l">>, dob |-> <<"2","0","0","1">>],
    [username |-> <<"b","o","b">>, dob |-> <<>>],
    [username |-> <<"b","o","b">>, dob |-> <<"2","0","0","1">>] }

(* -------------------------------- state -------------------------------- *)
\* localStorage.getItem("theme") when no theme is stored (null)
NoTheme == "null"

\* setupDarkMode, before it adds its listeners: the stored theme, else the
\* system preference, decides the class of the body and the checkbox
setupDarkMode(stored, system) ==
  LET savedTheme == IF stored # NoTheme THEN stored
                    ELSE IF system THEN "dark" ELSE "light"
  IN  /\ storedTheme = stored
      /\ systemDark = system
      /\ bodyDarkMode = (savedTheme = "dark")
      /\ toggleChecked = (savedTheme = "dark")
      /\ themeEvent = "none"

\* the mobile menu as the page loads it: closed ("hamburger" stands for the
\* menu symbol, "close" for the close symbol of the button)
MenuInit ==
  /\ menuClasses = {"hidden"}
  /\ menuBtnText = "hamburger"
  /\ ariaLabel = "Open menu"
  /\ ariaExpanded = "false"
  /\ bodyOverflow = ""
  /\ menuEvent = "none"

\* this.notifications = new Set(), and no subtle notification on screen
NotificationsInit ==
  /\ notifications = {}
  /\ subtleElements = {}
  /\ subtleCalls = 0
  /\ subtleMessage = ""

\* the password checker and the login form after construction
ScorerInit ==
  /\ passwordStrengthConfig = DefaultConfig
  /\ pwdValue = <<>>
  /\ inputEvents = 0
  /\ validationTimeout = FALSE
  /\ display = createPasswordStrengthChecker
  /\ alert = [type |-> "none", message |-> ""]
  /\ redirectTimers = 0
  /\ timers = {}
  /\ timeoutHandle = 0
  /\ sinceInput = 0

\* the page of a first visit: no theme stored, light system preference
Init ==
  /\ ScorerInit
  /\ NotificationsInit
  /\ MenuInit
  /\ setupDarkMode(NoTheme, FALSE)

\* the page of any visit: any stored theme and any system preference
InitChrome ==
  /\ ScorerInit
  /\ NotificationsInit
  /\ MenuInit
  /\ \E stored \in {NoTheme, "dark", "light"}, system \in BOOLEAN :
        setupDarkMode(stored, system)

\* passwordInput "input" listener: the user appends a chunk or empties the
\* field; the pending validation is cancelled and a new one is scheduled
InputUpTo(limit) ==
  /\ inputEvents < limit
  /\ \/ \E chunk \in Chunks : pwdValue' = pwdValue \o chunk
     \/ pwdValue # <<>> /\ pwdValue' = <<>>
  /\ inputEvents' = inputEvents + 1
  /\ validationTimeout' = TRUE
  /\ UNCHANGED chromeVars
  /\ UNCHANGED <<timerVars, passwordStrengthConfig, display, alert,
                 redirectTimers>>

PasswordInput == InputUpTo(MaxInputs)
FormPasswordInput == InputUpTo(MaxFormInputs)

\* ValidationTimeout with a scorer that writes the length score it computed
\* back into the shared configuration object
ValidationTimeoutDrift ==
  /\ validationTimeout
  /\ validationTimeout' = FALSE
  /\ display' = validatePasswordStrength(passwordStrengthConfig, display,
                                         pwdValue)
  /\ passwordStrengthConfig' =
       [passwordStrengthConfig EXCEPT !.requirements.length.weight =
          lengthScore(passwordStrengthConfig, pwdValue) \div Scale]
  /\ UNCHANGED chromeVars
  /\ UNCHANGED <<timerVars, pwdValue, inputEvents, alert, redirectTimers>>

\* the debounce timer fires: validatePasswordStrength(e.target.value, ...)
ValidationTimeout ==
  /\ validationTimeout
  /\ validationTimeout' = FALSE
  /\ display' = validatePasswordStrength(passwordStrengthConfig, display,
                                         pwdValue)
  /\ UNCHANGED chromeVars
  /\ UNCHANGED <<timerVars, passwordStrengthConfig, pwdValue, inputEvents,
                 alert, redirectTimers>>

\* login form "submit" listener
LoginSubmit ==
  \E form \in LoginFields :
    LET validationResults ==
          validateLoginForm(passwordStrengthConfig, trim(form.username),
                            trim(pwdValue), form.dob)
    IN  /\ IF ~validationResults.isValid
             THEN /\ alert' = [type |-> "error",
                               message |-> validationResults.message]
                  /\ UNCHANGED redirectTimers
             ELSE /\ redirectTimers < MaxRedirects
                  /\ alert' = [type |-> "success", message |-> "welcome"]
                  /\ redirectTimers' = redirectTimers + 1
        /\ UNCHANGED chromeVars
        /\ UNCHANGED <<timerVars, passwordStrengthConfig, pwdValue,
                       inputEvents, validationTimeout, display>>

\* the 1500 ms timer of a successful login fires (shows a notification)
RedirectTimeout ==
  /\ redirectTimers > 0
  /\ redirectTimers' = redirectTimers - 1
  /\ UNCHANGED chromeVars
  /\ UNCHANGED <<timerVars, passwordStrengthConfig, pwdValue, inputEvents,
                 validationTimeout, display, alert>>

\* the whole page: password field, strength checker and login form
Next ==
  \/ FormPasswordInput
  \/ ValidationTimeout
  \/ LoginSubmit
  \/ RedirectTimeout

Spec == Init /\ [][Next]_vars

\* the password field and its strength checker alone, with longer inputs
NextScorer ==
  \/ PasswordInput
  \/ ValidationTimeout

SpecScorer == Init /\ [][NextScorer]_vars

\* passwordInput "input" listener, for pasted texts
PasteInput ==
  /\ inputEvents < MaxPastes
  /\ \/ \E chunk \in PasteChunks : pwdValue' = pwdValue \o chunk
     \/ pwdValue # <<>> /\ pwdValue' = <<>>
  /\ inputEvents' = inputEvents + 1
  /\ validationTimeout' = TRUE
  /\ UNCHANGED chromeVars
  /\ UNCHANGED <<timerVars, passwordStrengthConfig, display, alert,
                 redirectTimers>>

\* the password field and its strength checker, with texts beyond maxLength
NextPaste ==
  \/ PasteInput
  \/ ValidationTimeout

SpecPaste == Init /\ [][NextPaste]_vars

(* ------------------------- the debounce, timed ------------------------- *)
\* setTimeout(..., 300): the delay of the validation timer, in ms
ValidationDelay == 300
\* the time one Tick lets pass, in ms
TickStep == ValidationDelay \div 3

\* what one input event of SpecDebounce appends
DebounceChunks == { <<"a","b">>, <<"C">>, <<"1","2","3">> }

\* TimedInput without the clearTimeout call
TimedInputNoClear ==
  /\ inputEvents < MaxBurst
  /\ \/ \E chunk \in DebounceChunks : pwdValue' = pwdValue \o chunk
     \/ pwdValue # <<>> /\ pwdValue' = <<>>
  /\ inputEvents' = inputEvents + 1
  /\ timers' = timers \cup {[id |-> inputEvents + 1, left |-> ValidationDelay]}
  /\ timeoutHandle' = inputEvents + 1
  /\ sinceInput' = 0
  /\ validationTimeout' = TRUE
  /\ UNCHANGED chromeVars
  /\ UNCHANGED <<passwordStrengthConfig, display, alert, redirectTimers>>

\* passwordInput "input" listener: clearTimeout(validationTimeout) drops the
\* timer whose id the listener kept (a no-op when that timer has fired or
\* none was set), then setTimeout starts a timer with a fresh id (the n-th
\* input event starts timer n) and the listener keeps that id
TimedInput ==
  /\ inputEvents < MaxBurst
  /\ \/ \E chunk \in DebounceChunks : pwdValue' = pwdValue \o chunk
     \/ pwdValue # <<>> /\ pwdValue' = <<>>
  /\ inputEvents' = inputEvents + 1
  /\ timers' = {t \in timers : t.id # timeoutHandle}
                \cup {[id |-> inputEvents + 1, left |-> ValidationDelay]}
  /\ timeoutHandle' = inputEvents + 1
  /\ sinceInput' = 0
  /\ validationTimeout' = TRUE
  /\ UNCHANGED chromeVars
  /\ UNCHANGED <<passwordStrengthConfig, display, alert, redirectTimers>>

\* TickStep ms pass: every pending timer comes closer to its time (a due
\* timer may still be waiting for the event loop); sinceInput stops counting
\* at ValidationDelay
Tick ==
  /\ timers' = {[t EXCEPT !.left = Max(0, t.left - TickStep)] : t \in timers}
  /\ sinceInput' = Min(ValidationDelay, sinceInput + TickStep)
  /\ UNCHANGED chromeVars
  /\ UNCHANGED <<passwordStrengthConfig, pwdValue, inputEvents,
                 validationTimeout, display, alert, redirectTimers,
                 timeoutHandle>>

\* a due validation timer fires:
\* this.validatePasswordStrength(e.target.value, passwordStrengthContainer)
TimedValidationTimeout ==
  \E t \in timers :
    /\ t.left = 0
    /\ timers' = timers \ {t}
    /\ validationTimeout' = (timers' # {})
    /\ display' = validatePasswordStrength(passwordStrengthConfig, display,
                                           pwdValue)
    /\ UNCHANGED chromeVars
    /\ UNCHANGED <<passwordStrengthConfig, pwdValue, inputEvents, alert,
                   redirectTimers, timeoutHandle, sinceInput>>

\* the password field and its strength checker with the timers of the window
NextDebounce ==
  \/ TimedInput
  \/ Tick
  \/ TimedValidationTimeout

\* time passes and the event loop runs every timer that is due
SpecDebounce ==
  /\ Init
  /\ [][NextDebounce]_vars
  /\ WF_vars(Tick)
  /\ WF_vars(TimedValidationTimeout)

(* ----------------- notifications, mobile menu and theme ----------------- *)
\* the variables of the password checker and the login form
scorerVars ==
  <<passwordStrengthConfig, pwdValue, inputEvents, validationTimeout,
    display, alert, redirectTimers, timerVars>>

\* messages the checkbox and feedback handlers pass to
\* showSubtleNotification
SubtleMessages == {"Added: Pizza", "Removed: Pizza", "Great start!"}

\* showSubtleNotification without the test of this.notifications
showSubtleNotificationUnchecked(message) ==
  /\ subtleCalls < MaxSubtleCalls
  /\ subtleCalls' = subtleCalls + 1
  /\ subtleMessage' = message
  /\ notifications' = notifications \cup {message}
  /\ subtleElements' = subtleElements \cup
       {[id |-> subtleCalls + 1, message |-> message, phase |-> "shown"]}
  /\ UNCHANGED <<scorerVars, menuVars, themeVars>>

\* showSubtleNotification(message): returns at once when the message is in
\* this.notifications; else adds it, appends the element (named by the
\* number of the call) and starts its 3000 ms timer
showSubtleNotification(message) ==
  /\ subtleCalls < MaxSubtleCalls
  /\ subtleCalls' = subtleCalls + 1
  /\ subtleMessage' = message
  /\ IF message \in notifications
       THEN UNCHANGED <<notifications, subtleElements>>
       ELSE /\ notifications' = notifications \cup {message}
            /\ subtleElements' = subtleElements \cup
                 {[id |-> subtleCalls + 1, message |-> message,
                   phase |-> "shown"]}
  /\ UNCHANGED <<scorerVars, menuVars, themeVars>>

\* a handler of the page calls showSubtleNotification
SubtleCall == \E message \in SubtleMessages : showSubtleNotification(message)

\* the 3000 ms timer of a subtle notification fires: it fades out and the
\* 500 ms timer starts
SubtleFadeTimeout ==
  \E e \in subtleElements :
    /\ e.phase = "shown"
    /\ subtleElements' =
         (subtleElements \ {e}) \cup {[e EXCEPT !.phase = "fading"]}
    /\ UNCHANGED <<notifications, subtleCalls, subtleMessage>>
    /\ UNCHANGED <<scorerVars, menuVars, themeVars>>

\* the 500 ms timer fires: the element is removed and its message deleted
\* from this.notifications
SubtleRemoveTimeout ==
  \E e \in subtleElements :
    /\ e.phase = "fading"
    /\ subtleElements' = subtleElements \ {e}
    /\ notifications' = notifications \ {e.message}
    /\ UNCHANGED <<subtleCalls, subtleMessage>>
    /\ UNCHANGED <<scorerVars, menuVars, themeVars>>

\* menu, button and body as one record
menuState ==
  [classes |-> menuClasses, text |-> menuBtnText, label |-> ariaLabel,
   expanded |-> ariaExpanded, overflow |-> bodyOverflow]

\* closeMobileMenu(mobileMenu, mobileMenuBtn)
closeMobileMenu(m) ==
  [classes  |-> (m.classes \cup {"hidden"}) \ {"show"},
   text     |-> "hamburger",
   label    |-> "Open menu",
   expanded |-> "false",
   overflow |-> ""]

\* the "click" listener of mobileMenuBtn
menuButtonListener(m) ==
  LET isMenuVisible == "show" \in m.classes
  IN  IF ~isMenuVisible
        THEN [classes  |-> (m.classes \ {"hidden"}) \cup {"show"},
              text     |-> "close",
              label    |-> "Close menu",
              expanded |-> "true",
              overflow |-> "hidden"]
        ELSE [classes  |-> (m.classes \cup {"hidden"}) \ {"show"},
              text     |-> "hamburger",
              label    |-> "Open menu",
              expanded |-> "false",
              overflow |-> ""]

\* documentClickListener without the test of the button
documentClickListenerMenuOnly(m, isClickInsideMenu, isClickOnButton) ==
  IF ~isClickInsideMenu /\ "show" \in m.classes
    THEN closeMobileMenu(m)
    ELSE m

\* the "click" listener of document, which every click bubbles to
documentClickListener(m, isClickInsideMenu, isClickOnButton) ==
  IF ~isClickInsideMenu /\ ~isClickOnButton /\ "show" \in m.classes
    THEN closeMobileMenu(m)
    ELSE m

\* a click or key event leaves the menu, button and body as m
MenuBecomes(m, event) ==
  /\ menuClasses' = m.classes
  /\ menuBtnText' = m.text
  /\ ariaLabel' = m.label
  /\ ariaExpanded' = m.expanded
  /\ bodyOverflow' = m.overflow
  /\ menuEvent' = event

\* a click on the menu button: its listener, then the listener of document
MenuButtonClick ==
  /\ MenuBecomes(documentClickListener(menuButtonListener(menuState),
                                       FALSE, TRUE), "button")
  /\ UNCHANGED <<scorerVars, notificationVars, themeVars>>

\* a click on a link of the menu: its listener, then the listener of document
MenuLinkClick ==
  /\ MenuBecomes(documentClickListener(closeMobileMenu(menuState),
                                       TRUE, FALSE), "link")
  /\ UNCHANGED <<scorerVars, notificationVars, themeVars>>

\* a click outside the menu and the button: the listener of document
OutsideClick ==
  /\ MenuBecomes(documentClickListener(menuState, FALSE, FALSE), "outside")
  /\ UNCHANGED <<scorerVars, notificationVars, themeVars>>

\* the "keydown" listener of setupAccessibility on Escape: closes an open
\* menu and removes the alerts
EscapeKey ==
  /\ MenuBecomes(IF "show" \in menuClasses THEN closeMobileMenu(menuState)
                                            ELSE menuState, "escape")
  /\ alert' = [type |-> "none", message |-> ""]
  /\ UNCHANGED <<passwordStrengthConfig, pwdValue, inputEvents,
                 validationTimeout, display, redirectTimers, timerVars>>
  /\ UNCHANGED <<notificationVars, themeVars>>

\* the "change" listener of darkModeToggle: the user has flipped the
\* checkbox; the class of the body and the stored theme follow it (the
\* notification the listener shows removes itself and is left out)
DarkModeToggleChange ==
  LET isDark == ~toggleChecked
  IN  /\ toggleChecked' = isDark
      /\ bodyDarkMode' = isDark
      /\ storedTheme' = IF isDark THEN "dark" ELSE "light"
      /\ themeEvent' = "toggle"
      /\ UNCHANGED systemDark
      /\ UNCHANGED <<scorerVars, notificationVars, menuVars>>

\* SystemThemeChange without the test of the stored theme
SystemThemeChangeAlways ==
  LET matches == ~systemDark
  IN  /\ systemDark' = matches
      /\ themeEvent' = "system"
      /\ bodyDarkMode' = matches
      /\ toggleChecked' = matches
      /\ UNCHANGED storedTheme
      /\ UNCHANGED <<scorerVars, notificationVars, menuVars>>

\* the "change" listener of the media query: the system preference has
\* changed; body and checkbox follow it only when no theme is stored
SystemThemeChange ==
  LET matches == ~systemDark
  IN  /\ systemDark' = matches
      /\ themeEvent' = "system"
      /\ IF storedTheme = NoTheme
           THEN /\ bodyDarkMode' = matches
                /\ toggleChecked' = matches
           ELSE UNCHANGED <<bodyDarkMode, toggleChecked>>
      /\ UNCHANGED storedTheme
      /\ UNCHANGED <<scorerVars, notificationVars, menuVars>>

\* notifications, mobile menu and theme of the page
NextChrome ==
  \/ SubtleCall
  \/ SubtleFadeTimeout
  \/ SubtleRemoveTimeout
  \/ MenuButtonClick
  \/ MenuLinkClick
  \/ OutsideClick
  \/ EscapeKey
  \/ DarkModeToggleChange
  \/ SystemThemeChange

SpecChrome == InitChrome /\ [][NextChrome]_vars

(* ======================================================================= *)
(* Properties                                                              *)
(* ======================================================================= *)
\* validatePasswordStrength has just scored the current field value: the
\* debounce timer has fired since the last input event
DisplayCurrent == inputEvents > 0 /\ ~validationTimeout

\* C1: for every password scored, the total of validatePasswordStrength is
\* in [0, 100]: the length term is at most 20, each class term at most 15
\* and the complexity term at most 20 (all in units of 1/Scale point).
TotalInRange ==
  LET config == passwordStrengthConfig
      total == totalScore(config, pwdValue)
  IN  DisplayCurrent =>
      /\ 0 <= total /\ total <= 100 * Scale
      /\ 0 <= lengthScore(config, pwdValue)
      /\ lengthScore(config, pwdValue) <= 20 * Scale
      /\ \A rc \in { <<"lowercase", LowerChars>>, <<"uppercase", UpperChars>>,
                     <<"number", DigitChars>>, <<"special", SpecialChars>> } :
            /\ 0 <= classScore(config, rc[1], rc[2], pwdValue)
            /\ classScore(config, rc[1], rc[2], pwdValue) <= 15 * Scale
      /\ 0 <= complexityTerm(config, pwdValue)
      /\ complexityTerm(config, pwdValue) <= 20 * Scale

\* C1 witness: a scored password that reaches the maximum 100, its raw
\* complexity being above 1 before the clamp
TotalInRangeWitness ==
  /\ DisplayCurrent
  /\ totalScore(passwordStrengthConfig, pwdValue) = 100 * Scale
  /\ complexityAdjustments(pwdValue) + 7 > Tenths
  /\ display.width = 100 * Scale

\* the four character classes of the class rules
CharClasses == {LowerChars, UpperChars, DigitChars, SpecialChars}

\* the suffix s brings a character of a class that p has no character of
AddsMissingClass(p, s) ==
  \E class \in CharClasses : testClass(class, s) /\ ~testClass(class, p)

\* C2: monotonicity: whenever the password scored is p \o s, with s holding
\* a character of a class absent from p, the total of p \o s is not lower
\* than the total of p, whatever penalties s newly triggers.
AddedClassNeverLowersTotal ==
  LET total == totalScore(passwordStrengthConfig, pwdValue)
  IN  DisplayCurrent =>
      \A i \in 0..(Len(pwdValue) - 1) :
        LET p == SubSeq(pwdValue, 1, i)
            s == SubSeq(pwdValue, i + 1, Len(pwdValue))
        IN  AddsMissingClass(p, s) =>
              total >= totalScore(passwordStrengthConfig, p)

\* C2 witness: a scored password p \o s where s adds a missing class, newly
\* triggers the denylist and the sequential penalty and lowers the complexity
AddedClassWitness ==
  /\ DisplayCurrent
  /\ \E i \in 1..(Len(pwdValue) - 1) :
       LET p == SubSeq(pwdValue, 1, i)
           s == SubSeq(pwdValue, i + 1, Len(pwdValue))
       IN  /\ AddsMissingClass(p, s)
           /\ ~commonPatternHit(p) /\ commonPatternHit(pwdValue)
           /\ ~hasSequential(p) /\ hasSequential(pwdValue)
           /\ calculateComplexity(pwdValue) < calculateComplexity(p)
           /\ display.width = totalScore(passwordStrengthConfig, pwdValue)

\* C3: scoring is deterministic and history-independent: whenever the
\* debounce timer fires, after any sequence of input events, earlier scoring
\* calls and login submissions, the rules, total, label and percentage shown
\* are those a freshly constructed scorer computes for the same password.
ScoringHistoryIndependent ==
  [][ (validationTimeout /\ ~validationTimeout') =>
        LET fresh == validatePasswordStrength(DefaultConfig, display, pwdValue)
        IN  /\ display'.rules = fresh.rules
            /\ display'.width = fresh.width
            /\ display'.width = totalScore(DefaultConfig, pwdValue)
            /\ display'.strength = fresh.strength
            /\ display'.percent = fresh.percent ]_vars

\* C3 witness: a password scored after an earlier scoring call (whose
\* suggestions text is still in the hidden panel) and a login submission
ScoringHistoryWitness ==
  /\ DisplayCurrent
  /\ inputEvents = MaxFormInputs
  /\ display.suggestionsDisplay = "none" /\ display.suggestions # <<>>
  /\ alert.type = "error"
  /\ display.rules = passwordResults(pwdValue)
  /\ display.width = totalScore(DefaultConfig, pwdValue)

\* C4 (as claimed): the strength validateLoginForm compares with 60 is the
\* total the scorer computes for the same password, so the login is refused
\* for weakness exactly when the scorer's total is below 60.
LoginScoreIsScorerTotal ==
  LET password == trim(pwdValue)
      strength == calculatePasswordStrength(passwordStrengthConfig, password)
      total == totalScore(passwordStrengthConfig, password)
  IN  /\ strength = total
      /\ (strength < 60 * Scale) <=> (total < 60 * Scale)

Ind(b) == IF b THEN 1 ELSE 0
Clamp(lo, hi, x) == IF x < lo THEN lo ELSE IF x > hi THEN hi ELSE x

\* C5: for every password scored, calculateComplexity is (in tenths)
\* clamp_[0,10](7 - 3[denylist] - 2[repeats] - 2[ascending triple]
\* + 2[lower and upper] + 2[digit and letter] + 3[len >= 12] + 2[len >= 16]):
\* the adjustments are independent and cumulative, the clamp is applied once
\* at the end, and the result is in [0, 1].
ComplexityClosedForm ==
  LET p == pwdValue
      hasLetter == testClass(LowerChars, p) \/ testClass(UpperChars, p)
      raw == 7 - 3 * Ind(commonPatternHit(p)) - 2 * Ind(hasRepeats(p))
               - 2 * Ind(hasSequential(p))
               + 2 * Ind(testClass(LowerChars, p) /\ testClass(UpperChars, p))
               + 2 * Ind(testClass(DigitChars, p) /\ hasLetter)
               + 3 * Ind(Len(p) >= 12) + 2 * Ind(Len(p) >= 16)
  IN  DisplayCurrent =>
      /\ calculateComplexity(p) = Clamp(0, Tenths, raw)
      /\ 0 <= calculateComplexity(p) /\ calculateComplexity(p) <= Tenths

\* C5 witness: a scored password of 16 or more characters with a denylist
\* hit and both class bonuses, whose sum 1.3 is clamped to 1
ComplexityClosedFormWitness ==
  /\ DisplayCurrent
  /\ Len(pwdValue) >= 16
  /\ commonPatternHit(pwdValue)
  /\ caseBonus(pwdValue) = 2 /\ digitBonus(pwdValue) = 2
  /\ complexityAdjustments(pwdValue) + 7 = 13
  /\ calculateComplexity(pwdValue) = Tenths
  /\ display.rules.complexity

\* the class terms of the total, in units
ClassTerms(config, p) ==
  classScore(config, "lowercase", LowerChars, p)
  + classScore(config, "uppercase", UpperChars, p)
  + classScore(config, "number", DigitChars, p)
  + classScore(config, "special", SpecialChars, p)

\* C6: the complexity rule is shown as matched exactly when the complexity
\* sub-score is strictly above 0.7, while the total always contains
\* complexity * 20, matched or not.
ComplexityFlagAndTerm ==
  LET config == passwordStrengthConfig
      complexity == calculateComplexity(pwdValue)
  IN  DisplayCurrent =>
      /\ display.rules.complexity <=> complexity > 7
      /\ display.width - lengthScore(config, pwdValue)
           - ClassTerms(config, pwdValue)
         = (complexity * 20 * Scale) \div Tenths

\* C6 witness: a scored password with the bare baseline 0.7: not matched,
\* yet 14 points of the total come from the complexity
ComplexityFlagWitness ==
  /\ DisplayCurrent
  /\ pwdValue # <<>>
  /\ complexityAdjustments(pwdValue) = 0
  /\ calculateComplexity(pwdValue) = 7
  /\ ~display.rules.complexity
  /\ display.width = lengthScore(passwordStrengthConfig, pwdValue)
                       + ClassTerms(passwordStrengthConfig, pwdValue)
                       + 14 * Scale

\* C7: the length term of the total is min(len/12, 1) * 20: linear in the
\* length up to 12 characters, the full 20 from 12 characters on and never
\* more.
LengthTermIsRamp ==
  LET config == passwordStrengthConfig
      term == display.width - ClassTerms(config, pwdValue)
                - complexityTerm(config, pwdValue)
  IN  DisplayCurrent =>
      /\ term = lengthScore(config, pwdValue)
      /\ 12 * term = Min(Len(pwdValue), 12) * 20 * Scale
      /\ term <= 20 * Scale
      /\ term = 20 * Scale <=> Len(pwdValue) >= 12

\* C7 witness: a scored password of 8 characters, whose length term is
\* 8/12 of 20 and not the full weight
LengthTermWitness ==
  /\ DisplayCurrent
  /\ Len(pwdValue) = 8
  /\ display.rules.length
  /\ 3 * lengthScore(passwordStrengthConfig, pwdValue) = 40 * Scale

\* the number of characters of a class in a string
Count(class, p) == Cardinality({i \in 1..Len(p) : p[i] \in class})

RuleClasses ==
  { <<"lowercase", LowerChars>>, <<"uppercase", UpperChars>>,
    <<"number", DigitChars>>, <<"special", SpecialChars>> }

\* C8: each class term is binary: 15 when the password scored has at least
\* one character of the class and 0 otherwise, the flag shown alike; every
\* prefix ending in a character of the class gets the same contribution.
ClassTermsBinary ==
  LET config == passwordStrengthConfig
  IN  DisplayCurrent =>
      \A rc \in RuleClasses :
        LET term == classScore(config, rc[1], rc[2], pwdValue)
        IN  /\ term = IF Count(rc[2], pwdValue) >= 1 THEN 15 * Scale ELSE 0
            /\ display.rules[rc[1]] <=> Count(rc[2], pwdValue) >= 1
            /\ \A i \in 1..Len(pwdValue) :
                 pwdValue[i] \in rc[2] =>
                   classScore(config, rc[1], rc[2], SubSeq(pwdValue, 1, i))
                     = term

\* C8 witness: a scored password with several characters of every class,
\* each class counted once (60 points)
ClassTermsWitness ==
  /\ DisplayCurrent
  /\ \A rc \in RuleClasses : Count(rc[2], pwdValue) >= 2
  /\ ClassTerms(passwordStrengthConfig, pwdValue) = 60 * Scale
  /\ \A rc \in RuleClasses : display.rules[rc[1]]

\* position of a letter in the alphabet, whatever its case; 0 for the rest
LetterIndexTable ==
  [i \in 1..Len(LowerSeq) |-> {LowerSeq[i], UpperSeq[i]}]
LetterIndex(c) ==
  IF \E i \in 1..Len(LowerSeq) : c \in LetterIndexTable[i]
    THEN CHOOSE i \in 1..Len(LowerSeq) : c \in LetterIndexTable[i]
    ELSE 0
\* value of a digit plus one; 0 for the rest
DigitIndex(c) ==
  IF c \in DigitChars
    THEN CHOOSE i \in 1..Len(DigitSeq) : DigitSeq[i] = c
    ELSE 0

\* c is the character w of a denylist entry, in either case
SameFolded(c, w) ==
  c = w \/ (LetterIndex(c) > 0 /\ LetterIndex(c) = LetterIndex(w))

\* the denylist of the claim, spelled out
Denylist ==
  << <<"1","2","3">>, <<"a","b","c">>, <<"q","w","e","r","t","y">>,
     <<"p","a","s","s","w","o","r","d">>, <<"a","d","m","i","n">>,
     <<"u","s","e","r">> >>

\* the denylist entries that occur in p as contiguous substrings, case folded
DenylistMatches(p) ==
  { n \in 1..Len(Denylist) :
      \E k \in 1..(Len(p) - Len(Denylist[n]) + 1) :
        \A j \in 1..Len(Denylist[n]) : SameFolded(p[k + j - 1], Denylist[n][j]) }

\* every denylist entry as typed, in capitals, without its first character
\* and with a space after its first character
DenylistExamples ==
  UNION { { Denylist[n],
            [j \in 1..Len(Denylist[n]) |->
               IF LetterIndex(Denylist[n][j]) > 0
                 THEN UpperSeq[LetterIndex(Denylist[n][j])]
                 ELSE Denylist[n][j]],
            Tail(Denylist[n]),
            <<Head(Denylist[n]), " ">> \o Tail(Denylist[n]) }
          : n \in 1..Len(Denylist) }

\* C9: the denylist penalty of 0.3 is applied once when the lower-cased
\* password scored contains at least one denylist entry as a contiguous
\* substring, however many entries match, and not at all otherwise; so it
\* is for the entries themselves and their near misses before any input.
DenylistPenaltyOnce ==
  LET matches == DenylistMatches(pwdValue)
  IN  /\ DisplayCurrent =>
           /\ commonPenalty(pwdValue) = IF matches # {} THEN -3 ELSE 0
           /\ commonPatternHit(pwdValue) <=> matches # {}
      /\ inputEvents = 0 =>
           \A e \in DenylistExamples :
             commonPenalty(e) = IF DenylistMatches(e) # {} THEN -3 ELSE 0

\* C9 witness: a scored password in which two denylist entries occur, one of
\* them only after lower-casing, penalised by 0.3
DenylistPenaltyWitness ==
  /\ DisplayCurrent
  /\ Cardinality(DenylistMatches(pwdValue)) >= 2
  /\ \E n \in DenylistMatches(pwdValue) : ~testLiteral(Denylist[n], pwdValue)
  /\ commonPenalty(pwdValue) = -3
  /\ ~display.rules.complexity

\* three characters ascending by one in the alphabet or in the digits
Ascending(a, b, c) ==
  \/ /\ LetterIndex(a) > 0
     /\ LetterIndex(b) = LetterIndex(a) + 1
     /\ LetterIndex(c) = LetterIndex(a) + 2
  \/ /\ DigitIndex(a) > 0
     /\ DigitIndex(b) = DigitIndex(a) + 1
     /\ DigitIndex(c) = DigitIndex(a) + 2

AscendingRun(p) ==
  \E k \in 1..(Len(p) - 2) : Ascending(p[k], p[k + 1], p[k + 2])

AlnumChars == LowerChars \cup UpperChars \cup DigitChars

\* C10: the sequential penalty of 0.2 is applied exactly when the password
\* scored contains, case-insensitively, an ascending triple of letters or
\* digits; descending runs and wrap-arounds do not count; a password with
\* abc or 123 gets the denylist and the sequential penalty.  Before any
\* input the same is compared on every string of three letters or digits.
SequentialPenaltyExact ==
  /\ DisplayCurrent =>
       /\ sequentialPenalty(pwdValue)
            = IF AscendingRun(pwdValue) THEN -2 ELSE 0
       /\ (DenylistMatches(pwdValue) \cap {1, 2} # {}) =>
            /\ commonPenalty(pwdValue) = -3
            /\ sequentialPenalty(pwdValue) = -2
            /\ complexityAdjustments(pwdValue)
                 = -5 + repeatPenalty(pwdValue) + caseBonus(pwdValue)
                      + digitBonus(pwdValue) + lengthBonus(pwdValue)
  /\ inputEvents = 0 =>
       \A a \in AlnumChars, b \in AlnumChars, c \in AlnumChars :
         sequentialPenalty(<<a, b, c>>)
           = IF Ascending(a, b, c) THEN -2 ELSE 0

\* C10 witness: a scored password holding abc in mixed case next to a
\* descending run and a wrap-around, with both penalties
SequentialPenaltyWitness ==
  /\ DisplayCurrent
  /\ testLiteral(<<"c","b","a","8","9","0">>, pwdValue)
  /\ 2 \in DenylistMatches(pwdValue)
  /\ ~hasSequentialCaseSensitive(pwdValue)
  /\ sequentialPenalty(pwdValue) = -2
  /\ commonPenalty(pwdValue) = -3

\* the per-rule entries with no rule matched
NoRuleMatched == [r \in RuleNames |-> FALSE]

\* C11 (as claimed): for the empty password all six per-rule entries are
\* false, the complexity is the baseline 0.7 and the total holds nothing but
\* the (zero) length term.
EmptyPasswordTotalIsLengthTerm ==
  (DisplayCurrent /\ pwdValue = <<>>) =>
    /\ display.rules = NoRuleMatched
    /\ complexityAdjustments(pwdValue) = 0
    /\ calculateComplexity(pwdValue) = 7
    /\ display.width = lengthScore(passwordStrengthConfig, pwdValue)
    /\ display.width = 0

\* C11 (amended): for the empty password all six per-rule entries are
\* false, no bonus or penalty fires and the complexity is the baseline 0.7;
\* the total is the zero length term plus the complexity term 0.7 * 20 = 14.
EmptyPasswordScore ==
  (DisplayCurrent /\ pwdValue = <<>>) =>
    /\ display.rules = NoRuleMatched
    /\ complexityAdjustments(pwdValue) = 0
    /\ calculateComplexity(pwdValue) = 7
    /\ lengthScore(passwordStrengthConfig, pwdValue) = 0
    /\ ClassTerms(passwordStrengthConfig, pwdValue) = 0
    /\ display.width = 14 * Scale
    /\ display.strength = "Very Weak" /\ display.percent = 14

\* C11 witness: the emptied field has been scored
EmptyPasswordWitness ==
  /\ DisplayCurrent
  /\ pwdValue = <<>>
  /\ display.strength = "Very Weak"

\* the example passwords of the worked cases
TwelveA == [i \in 1..12 |-> "a"]
Passw0rdBang == <<"P","a","s","s","w","0","r","d","!">>
Tr0ub4dourXyz ==
  <<"T","r","0","u","b","4","d","o","u","r","&","3","x","y","z">>

\* C12 (as claimed): for 'aaaaaaaaaaaa' the length and lowercase entries are
\* true and the uppercase, number, special and complexity entries are false;
\* the repeat penalty and the length >= 12 bonus both apply and the
\* complexity lies strictly between 0 and 1.
TwelveAComplexityUnmatched ==
  (DisplayCurrent /\ pwdValue = TwelveA) =>
    /\ display.rules = [length |-> TRUE, lowercase |-> TRUE,
                        uppercase |-> FALSE, number |-> FALSE,
                        special |-> FALSE, complexity |-> FALSE]
    /\ repeatPenalty(pwdValue) = -2
    /\ lengthBonus(pwdValue) = 3
    /\ calculateComplexity(pwdValue) > 0
    /\ calculateComplexity(pwdValue) < Tenths

\* C12 (amended): for 'aaaaaaaaaaaa' the length and lowercase entries are
\* true and the uppercase, number and special entries are false; the repeat
\* penalty and the length >= 12 bonus both apply and nothing else does, so
\* the complexity is 0.7 - 0.2 + 0.3 = 0.8, strictly between 0 and 1 and
\* above 0.7: the complexity entry is true.
TwelveAScore ==
  (DisplayCurrent /\ pwdValue = TwelveA) =>
    /\ display.rules = [length |-> TRUE, lowercase |-> TRUE,
                        uppercase |-> FALSE, number |-> FALSE,
                        special |-> FALSE, complexity |-> TRUE]
    /\ repeatPenalty(pwdValue) = -2
    /\ lengthBonus(pwdValue) = 3
    /\ complexityAdjustments(pwdValue) = 1
    /\ calculateComplexity(pwdValue) = 8
    /\ display.width = (20 + 15 + 16) * Scale

\* C12 witness: 'aaaaaaaaaaaa' has been typed and scored
TwelveAWitness ==
  /\ DisplayCurrent
  /\ pwdValue = TwelveA
  /\ display.rules.lowercase

\* C13: for 'Passw0rd!' the length, lowercase, uppercase, number and special
\* entries are all true, and no denylist penalty applies: the lowered
\* password 'passw0rd!' does not hold the literal 'password'.
Passw0rdNoDenylistPenalty ==
  (DisplayCurrent /\ pwdValue = Passw0rdBang) =>
    /\ display.rules.length /\ display.rules.lowercase
    /\ display.rules.uppercase /\ display.rules.number
    /\ display.rules.special
    /\ commonPenalty(pwdValue) = 0
    /\ DenylistMatches(pwdValue) = {}
    /\ complexityAdjustments(pwdValue) = caseBonus(pwdValue)
                                         + digitBonus(pwdValue)
    /\ display.width = (15 + 60 + 20) * Scale

\* C13 witness: 'Passw0rd!' has been typed and scored
Passw0rdWitness ==
  /\ DisplayCurrent
  /\ pwdValue = Passw0rdBang
  /\ display.rules.special

\* C14: for 'Tr0ub4dour&3xyz' the sequential penalty (from 'xyz') and the
\* length >= 12 bonus apply, no denylist and no repeat penalty applies, the
\* total is at least 70 and the label is 'Good' or 'Excellent'.
Tr0ub4dourScore ==
  (DisplayCurrent /\ pwdValue = Tr0ub4dourXyz) =>
    /\ Len(pwdValue) = 15
    /\ sequentialPenalty(pwdValue) = -2
    /\ lengthBonus(pwdValue) = 3
    /\ commonPenalty(pwdValue) = 0
    /\ repeatPenalty(pwdValue) = 0
    /\ display.width >= 70 * Scale
    /\ display.strength \in {"Good", "Excellent"}
    /\ display.suggestionsDisplay = "none"

\* C14 witness: 'Tr0ub4dour&3xyz' has been typed and scored
Tr0ub4dourWitness ==
  /\ DisplayCurrent
  /\ pwdValue = Tr0ub4dourXyz
  /\ display.strength = "Excellent"

\* the labels updatePasswordDisplay can show
StrengthLabels == {"Very Weak", "Weak", "Fair", "Good", "Excellent"}

\* C15: the scorer has no error outcome: for every password, the empty one,
\* one with no character of any tested class and one longer than maxLength
\* included, scoring completes with all six rule entries defined and a
\* numeric total; neither minLength nor maxLength makes the scorer turn the
\* password away.
ScorerHasNoErrorOutcome ==
  DisplayCurrent =>
    /\ DOMAIN display.rules = RuleNames
    /\ \A r \in RuleNames : display.rules[r] \in BOOLEAN
    /\ display.width \in 0..(100 * Scale)
    /\ display.percent \in 0..100
    /\ display.strength \in StrengthLabels
    /\ display.rules.length = (Len(pwdValue) >= 8)
    /\ display.rules.lowercase = (\E i \in 1..Len(pwdValue) :
                                    pwdValue[i] \in LowerChars)
    /\ display.rules.uppercase = (\E i \in 1..Len(pwdValue) :
                                    pwdValue[i] \in UpperChars)
    /\ (Len(pwdValue) > passwordStrengthConfig.maxLength =>
          display.width >= 20 * Scale)

\* C15 witness: a password longer than maxLength has been scored
OverlongScoredWitness ==
  /\ DisplayCurrent
  /\ Len(pwdValue) > passwordStrengthConfig.maxLength
  /\ display.rules.length /\ display.rules.uppercase
  /\ display.strength \in StrengthLabels

\* the sum of the six weights of a configuration
WeightSum(config) ==
  config.requirements.length.weight + config.requirements.lowercase.weight
  + config.requirements.uppercase.weight + config.requirements.number.weight
  + config.requirements.special.weight
  + config.requirements.complexity.weight

\* C16: in every reachable state the six weights of passwordStrengthConfig
\* are the ones the constructor set (20, 15, 15, 15, 15, 20) and sum to 100:
\* no scoring call, form submission or other event writes to the
\* configuration.
ConfigWeightsFixed ==
  /\ passwordStrengthConfig.requirements.length.weight = 20
  /\ passwordStrengthConfig.requirements.lowercase.weight = 15
  /\ passwordStrengthConfig.requirements.uppercase.weight = 15
  /\ passwordStrengthConfig.requirements.number.weight = 15
  /\ passwordStrengthConfig.requirements.special.weight = 15
  /\ passwordStrengthConfig.requirements.complexity.weight = 20
  /\ WeightSum(passwordStrengthConfig) = 100
  /\ passwordStrengthConfig.minLength = 8
  /\ passwordStrengthConfig.maxLength = 128

\* C16 witness: the scorer has run on a short password, a login has been
\* accepted and its timer has fired, and the weights still sum to 100
ConfigWeightsWitness ==
  /\ DisplayCurrent
  /\ inputEvents = MaxFormInputs
  /\ Len(pwdValue) \in 1..11
  /\ alert.type = "success"
  /\ redirectTimers = 0
  /\ WeightSum(passwordStrengthConfig) = 100

\* the three checks of the login form on a submitted form and password field
FieldMissing(form, pwd) ==
  trim(form.username) = <<>> \/ trim(pwd) = <<>> \/ form.dob = <<>>
UsernameShort(form) == Len(trim(form.username)) < 3
PasswordWeak(pwd) ==
  calculatePasswordStrength(passwordStrengthConfig, trim(pwd)) < 60 * Scale

\* what validateLoginForm answers for a form in the current state
LoginAnswer(form) ==
  validateLoginForm(passwordStrengthConfig, trim(form.username),
                    trim(pwdValue), form.dob)

\* each message is reported exactly when its check is the first one to fail
FirstFailureReported ==
  \A form \in LoginFields :
    LET r == LoginAnswer(form)
        missing == FieldMissing(form, pwdValue)
        short == UsernameShort(form)
        weak == PasswordWeak(pwdValue)
    IN  /\ (r.message = "fill in all fields") = missing
        /\ (r.message = "username too short") = (~missing /\ short)
        /\ (r.message = "password too weak") =
             (~missing /\ ~short /\ weak)
        /\ r.isValid = (~missing /\ ~short /\ ~weak)
        /\ r.isValid = (r.message = "")

\* a submit shows either the error alert of the first failing check and
\* schedules nothing, or the success alert with one "Redirecting" timer
SubmitOutcome ==
  (alert' # alert \/ redirectTimers' > redirectTimers) =>
    \E form \in LoginFields :
      LET r == LoginAnswer(form)
      IN  IF r.isValid
            THEN /\ alert'.type = "success"
                 /\ redirectTimers' = redirectTimers + 1
            ELSE /\ alert' = [type |-> "error", message |-> r.message]
                 /\ r.message # ""
                 /\ redirectTimers' = redirectTimers

\* C17: validateLoginForm applies its checks in a fixed order and reports
\* only the first failure: (1) username or password (both trimmed) or date
\* of birth empty, (2) username shorter than 3, (3) strength below 60; it
\* answers isValid only when all three pass.  On a failure the submit
\* handler shows the error alert only: no success alert, no "Redirecting"
\* timer.
LoginChecksInOrder ==
  /\ []FirstFailureReported
  /\ [][SubmitOutcome]_vars

\* C17 witness: the username error alone was reported for a form whose
\* password is too weak as well, and nothing was scheduled
LoginChecksWitness ==
  /\ alert = [type |-> "error", message |-> "username too short"]
  /\ pwdValue # <<>>
  /\ PasswordWeak(pwdValue)
  /\ inputEvents = 1
  /\ redirectTimers = 0

\* C18: every password validateLoginForm accepts has at least the
\* configured minLength = 8 characters (the "At least 8 characters"
\* requirement of the configuration).
AcceptedPasswordHasMinLength ==
  \A form \in LoginFields :
    LoginAnswer(form).isValid =>
      Len(trim(pwdValue)) >= passwordStrengthConfig.minLength

\* every rule of the scorer is matched by the password
AllRulesMatched(p) ==
  /\ Len(p) >= 8
  /\ \A class \in CharClasses : \E i \in 1..Len(p) : p[i] \in class
  /\ calculateComplexity(p) > 7

\* C19: the suggestions panel is visible exactly when the total is below 70,
\* and whenever it is visible it lists at least one suggestion: no password
\* has a total below 70 with the length, the four classes and the complexity
\* all matched, so the "Great password!" fallback is never displayed.
SuggestionsBelow70 ==
  /\ display.suggestions # <<"Great password!">>
  /\ display.suggestionsDisplay = "block" => display.suggestions # <<>>
  /\ DisplayCurrent =>
       /\ (display.suggestionsDisplay = "block") =
            (totalScore(passwordStrengthConfig, pwdValue) < 70 * Scale)
       /\ display.suggestionsDisplay \in {"block", "none"}
       /\ AllRulesMatched(pwdValue) =>
            totalScore(passwordStrengthConfig, pwdValue) >= 70 * Scale

\* C19 witness: a password matching every rule has been scored with the
\* panel hidden, after a weaker one had made the panel list suggestions
SuggestionsWitness ==
  /\ DisplayCurrent
  /\ AllRulesMatched(pwdValue)
  /\ display.suggestionsDisplay = "none"
  /\ display.suggestions # <<>>

\* at most one validation timer is pending
AtMostOneTimer == Cardinality(timers) <= 1

\* an input event leaves exactly one pending timer: the one it started, with
\* the whole delay to run
InputRestartsTimer ==
  inputEvents' # inputEvents =>
    timers' = {[id |-> timeoutHandle', left |-> ValidationDelay]}

\* validatePasswordStrength runs only when the delay has passed since the
\* last input event
RunsOnlyAfterDelay ==
  (inputEvents' = inputEvents /\ Cardinality(timers') < Cardinality(timers))
    => sinceInput >= ValidationDelay

\* the display is the one validatePasswordStrength computes from the field
DisplayFromField ==
  /\ timers = {}
  /\ display.strength # ""
  /\ display = validatePasswordStrength(passwordStrengthConfig, display,
                                        pwdValue)

\* C20: the validation is debounced: at most one validation timer is pending;
\* every input event cancels the pending timer before it starts a new
\* 300 ms one; validatePasswordStrength never runs between two input events
\* less than 300 ms apart; after any burst of input events the display is
\* eventually computed from the final value of the field.
ValidationDebounced ==
  /\ []AtMostOneTimer
  /\ [][InputRestartsTimer /\ RunsOnlyAfterDelay]_vars
  /\ (inputEvents > 0) ~> DisplayFromField

\* C20 witness: a second input event came before the first timer fired; the
\* first timer is gone without having run and the second one is due
DebounceWitness ==
  /\ inputEvents = 2
  /\ timeoutHandle = 2
  /\ timers = {[id |-> 2, left |-> 0]}
  /\ display = createPasswordStrengthChecker
  /\ pwdValue # <<>>

\* this.notifications holds exactly the messages on screen, one element each
NotificationsMatchScreen ==
  /\ notifications = {e.message : e \in subtleElements}
  /\ \A e1, e2 \in subtleElements : e1.message = e2.message => e1 = e2

\* a call with a message of the set changes nothing; any other call adds
\* the message and exactly one element
DuplicateCallIgnored ==
  subtleCalls' # subtleCalls =>
    IF subtleMessage' \in notifications
      THEN UNCHANGED <<notifications, subtleElements>>
      ELSE /\ notifications' = notifications \cup {subtleMessage'}
           /\ Cardinality(subtleElements') = Cardinality(subtleElements) + 1
           /\ \E e \in subtleElements' \ subtleElements :
                e.message = subtleMessage' /\ e.phase = "shown"

\* a message leaves the set when its notification is removed, and only then
RemovalFreesMessage ==
  subtleCalls' = subtleCalls =>
    notifications \ notifications' =
      {e.message : e \in {f \in subtleElements :
                            \A g \in subtleElements' : g.id # f.id}}

\* C21: the set notifications holds exactly the messages of the subtle
\* notifications shown and not yet removed, so at most one per message is on
\* screen; a call with a message of the set creates no element and no timer;
\* a message leaves the set when its notification is removed, and can then
\* be shown again.
SubtleNotificationsDeduplicated ==
  /\ []NotificationsMatchScreen
  /\ [][DuplicateCallIgnored /\ RemovalFreesMessage]_vars

\* C21 witness: the second call repeated the message of the first, which is
\* still on screen, and created nothing
DuplicateCallWitness ==
  /\ subtleCalls = 2
  /\ subtleMessage = "Added: Pizza"
  /\ notifications = {"Added: Pizza"}
  /\ \E phase \in {"shown", "fading"} :
       subtleElements =
         {[id |-> 1, message |-> "Added: Pizza", phase |-> phase]}

\* the menu is open
MenuShown == "show" \in menuClasses

\* exactly one of 'show' and 'hidden'; aria-expanded, the close symbol and
\* the scroll lock go with 'show'
MenuConsistent ==
  /\ Cardinality(menuClasses \cap {"show", "hidden"}) = 1
  /\ (ariaExpanded = "true") = MenuShown
  /\ (menuBtnText = "close") = MenuShown
  /\ (bodyOverflow = "hidden") = MenuShown

\* a step that handles a click on the button leaves the menu toggled
ButtonClickToggles ==
  (menuEvent' = "button" /\ menuVars' # menuVars) =>
    ("show" \in menuClasses') = ~MenuShown

\* a step that handles a link click, an outside click or Escape leaves the
\* menu closed
OtherEventsClose ==
  (menuEvent' \in {"link", "outside", "escape"} /\ menuVars' # menuVars) =>
    "show" \notin menuClasses'

\* C22: starting from a closed menu, after any sequence of button clicks,
\* link clicks, outside clicks and Escape presses, the menu has exactly one
\* of the classes 'show' and 'hidden', and aria-expanded is 'true', the
\* button shows the close symbol and body scrolling is locked exactly when
\* the menu has 'show'; a button click toggles the menu and is never also
\* treated as an outside click.
MobileMenuConsistent ==
  /\ []MenuConsistent
  /\ [][ButtonClickToggles /\ OtherEventsClose]_vars

\* C22 witness: a click on the button has opened the menu
MenuOpenWitness ==
  /\ menuEvent = "button"
  /\ menuClasses = {"show"}
  /\ ariaExpanded = "true"
  /\ bodyOverflow = "hidden"

\* a user toggle stores 'dark' or 'light', the one the body now shows
ToggleStoresBodyTheme ==
  (themeEvent' = "toggle" /\ themeVars' # themeVars) =>
    /\ storedTheme' \in {"dark", "light"}
    /\ (storedTheme' = "dark") = bodyDarkMode'
    /\ bodyDarkMode' = toggleChecked'
    /\ toggleChecked' = ~toggleChecked

\* a system change with a theme stored leaves body, checkbox and store alone
SystemChangeKeepsChoice ==
  (themeEvent' = "system" /\ themeVars' # themeVars
     /\ storedTheme # NoTheme) =>
    UNCHANGED <<bodyDarkMode, toggleChecked, storedTheme>>

\* a stored theme is 'dark' exactly when the body has the dark-mode class
StoredThemeMatchesBody ==
  storedTheme # NoTheme =>
    /\ storedTheme \in {"dark", "light"}
    /\ (storedTheme = "dark") = bodyDarkMode

\* C23: every user toggle stores 'dark' or 'light' in agreement with the
\* dark-mode class of the body, and a system colour-scheme change leaves the
\* body class and the toggle unchanged whenever a theme is stored; so from
\* the first user toggle on, under any interleaving of toggles and system
\* events, the stored theme is 'dark' exactly when the body has the class.
ThemePreferenceKept ==
  /\ [][ToggleStoresBodyTheme /\ SystemChangeKeepsChoice]_vars
  /\ [](themeEvent = "toggle" => StoredThemeMatchesBody)
  /\ [][storedTheme # NoTheme => StoredThemeMatchesBody']_vars

\* C23 witness: the user chose the light theme and the system has since
\* changed to dark: the body stays light
ThemeKeptWitness ==
  /\ themeEvent = "system"
  /\ storedTheme = "light"
  /\ systemDark
  /\ ~bodyDarkMode /\ ~toggleChecked

====
